---- MODULE Spec2Model ----
(***************************************************************************)
(* The Azure DevOps service-hook endpoint of azure-rust-app                *)
(* (src/src/hooks/ado.rs) and the error response of src/src/main.rs.       *)
(*                                                                         *)
(* Every inbound POST /hooks/ado/build is one run of the handler build.  *)
(* The handler suspends at its awaits (get_token, the outbound GET), so    *)
(* requests interleave at those points; each request's locals are modelled *)
(* as functions over Requests.                                             *)
(***************************************************************************)
EXTENDS Integers, Sequences, FiniteSets, TLC

\* Number of webhook requests the server handles concurrently.
MaxRequests == 2

Requests == 1..MaxRequests

-----------------------------------------------------------------------------
(* Option<T> *)

None == [some |-> FALSE]

Some(v) == [some |-> TRUE, value |-> v]

is_none(o) == ~o.some

(* Result<T, E>; an error is the anyhow context chain, outermost first.    *)

Ok(v) == [ok |-> TRUE, value |-> v]

Err(chain) == [ok |-> FALSE, chain |-> chain]

-----------------------------------------------------------------------------
(* serde_json::Value *)

JNull == [t |-> "null"]

JNum(n) == [t |-> "number", n |-> n]

JStr(s) == [t |-> "string", s |-> s]

JObj(o) == [t |-> "object", o |-> o]

\* The text is not JSON at all.
NotJson == [t |-> "invalid"]

Without(o, k) == [x \in DOMAIN o \ {k} |-> o[x]]

Has(o, k, t) == k \in DOMAIN o /\ o[k].t = t

\* A field of type Option<T>: absent and null both decode to None.
IsOpt(o, k, t) == k \notin DOMAIN o \/ o[k].t \in {"null", t}

Opt(o, k) == IF k \in DOMAIN o /\ o[k].t # "null" THEN Some(o[k]) ELSE None

-----------------------------------------------------------------------------
(* Program constants *)

SECURE_FETCH == TRUE

ADO_ORGANIZATION == "https://dev.azure.com/jusmoore"

ADO_RESOURCE == "499b84ac-1321-427f-aa17-267ca6975798"

\* StatusCode::INTERNAL_SERVER_ERROR
INTERNAL_SERVER_ERROR == 500

\* The only status verify accepts from the lookup endpoint.
STATUS_OK == 200

-----------------------------------------------------------------------------
(* Sample values, taken from the fixture of notification_test.             *)

EventId == "d6ac459c-18b3-44ff-95b5-b5f03db672ea"

OtherEventId == "11111111-2222-3333-4444-555555555555"

SubscriptionId == "213e4167-f493-4941-9b4c-bbb092d0b159"

NotificationId == 41

OtherNotificationId == 2

BuildUrl == "https://fabrikam-fiber-inc.visualstudio.com/DefaultCollection/_apis/build/Builds/1"

\* The resource of the fixture's build.complete event: no tags and no
\* templateParameters, and fields the model does not know (definition).
BuildResource ==
    JObj(("_links" :> JObj([web |-> JObj([href |-> JStr(BuildUrl)])]))
         @@ [id |-> JNum(1),
             buildNumber |-> JStr("20150407.2"),
             status |-> JStr("completed"),
             result |-> JStr("succeeded"),
             queueTime |-> JStr("2015-04-07T17:22:56.22Z"),
             startTime |-> JStr("2015-04-07T17:23:02.4977418Z"),
             finishTime |-> JStr("2015-04-07T17:24:20.763574Z"),
             url |-> JStr(BuildUrl),
             definition |-> JObj([id |-> JNum(1)]),
             reason |-> JStr("batchedCI")])

\* The same payload with the run id left out.
BuildResourceNoId == JObj(Without(BuildResource.o, "id"))

ResourceContainers ==
    [collection |-> [id |-> "c12d0eb8-e382-443b-9f9c-c52cba5014c2", base_url |-> None]]

EventTypes == {"build.complete", "Build.Complete", "git.push"}

Resources == {None, Some(BuildResource), Some(BuildResourceNoId)}

\* The events the Json extractor can hand to build.
InboundEvents ==
    [id : {EventId},
     subscription_id : {None, Some(SubscriptionId)},
     notification_id : {None, Some(NotificationId)},
     event_type : EventTypes,
     publisher_id : {"tfs"},
     message : {None},
     detailed_message : {None},
     resource : Resources,
     resource_version : {None},
     resource_containers : {ResourceContainers},
     created_date : {"2023-06-30T15:24:41.3517333Z"}]

-----------------------------------------------------------------------------
(* Event model: serde's derived Deserialize, on a serde_json::Value.       *)
(* A field is required unless its type is Option<T> or it is               *)
(* #[serde(default)]; unknown fields are ignored.                          *)

\* required fields of a struct, in declaration order, with their JSON types
LinkFields == <<<<"href", "string">>>>

BuildFields ==
    << <<"id", "number">>, <<"url", "string">>, <<"buildNumber", "string">>,
       <<"status", "string">>, <<"result", "string">>, <<"queueTime", "string">>,
       <<"startTime", "string">>, <<"finishTime", "string">>, <<"reason", "string">> >>

\* #[serde(default)] fields of Build
BuildDefaults == << <<"tags", "array">>, <<"templateParameters", "object">> >>

NotificationFields ==
    << <<"id", "number">>, <<"subscriptionId", "string">>, <<"subscriberId", "string">>,
       <<"eventId", "string">>, <<"status", "string">>, <<"result", "string">>,
       <<"createdDate", "string">>, <<"modifiedDate", "string">>, <<"details", "object">> >>

EventFields ==
    << <<"id", "string">>, <<"eventType", "string">>, <<"publisherId", "string">>,
       <<"resourceContainers", "object">>, <<"createdDate", "string">> >>

\* the fields the struct Event declares without Option
EventKeys == {"id", "eventType", "publisherId", "resourceContainers", "createdDate"}

Range(s) == {s[i] : i \in DOMAIN s}

\* serde's error for the first required field that is absent or ill-typed
FieldError(o, fields) ==
    LET bad == {i \in DOMAIN fields : ~Has(o, fields[i][1], fields[i][2])}
        i == CHOOSE j \in bad : \A k \in bad : j <= k
    IN  IF fields[i][1] \in DOMAIN o
        THEN "invalid type: expected " \o fields[i][2]
        ELSE "missing field " \o fields[i][1]

FieldsOk(o, fields) == \A i \in DOMAIN fields : Has(o, fields[i][1], fields[i][2])

\* HashMap<String, Link>
DecodeLinks(v) ==
    IF v.t # "object" THEN Err(<<"invalid type: expected a map">>)
    ELSE IF \E k \in DOMAIN v.o : v.o[k].t # "object" \/ ~FieldsOk(v.o[k].o, LinkFields)
         THEN Err(<<"invalid link">>)
         ELSE Ok([k \in DOMAIN v.o |-> [href |-> v.o[k].o.href.s]])

\* serde_json::from_value::<BuildComplete>
DecodeBuildComplete(v) ==
    IF v.t # "object" THEN Err(<<"invalid type: expected struct BuildComplete">>)
    ELSE IF "_links" \notin DOMAIN v.o THEN Err(<<"missing field _links">>)
    ELSE IF ~DecodeLinks(v.o["_links"]).ok THEN DecodeLinks(v.o["_links"])
    ELSE IF ~FieldsOk(v.o, BuildFields) THEN Err(<<FieldError(v.o, BuildFields)>>)
    ELSE IF \E d \in Range(BuildDefaults) : d[1] \in DOMAIN v.o /\ v.o[d[1]].t # d[2]
         THEN Err(<<"invalid type">>)
    ELSE Ok([links |-> DecodeLinks(v.o["_links"]).value,
             info |-> [tags |-> IF "tags" \in DOMAIN v.o THEN v.o.tags ELSE <<>>,
                       template_parameters |->
                           IF "templateParameters" \in DOMAIN v.o
                           THEN v.o.templateParameters ELSE <<>>,
                       id |-> v.o.id.n,
                       url |-> v.o.url.s,
                       build_number |-> v.o.buildNumber.s,
                       status |-> v.o.status.s,
                       result |-> v.o.result.s,
                       queue_time |-> v.o.queueTime.s,
                       start_time |-> v.o.startTime.s,
                       finish_time |-> v.o.finishTime.s,
                       reason |-> v.o.reason.s]])

OptStr(o, k) == IF Opt(o, k).some THEN Some(o[k].s) ELSE None

OptNum(o, k) == IF Opt(o, k).some THEN Some(o[k].n) ELSE None

MessageFields == << <<"text", "string">>, <<"html", "string">>, <<"markdown", "string">> >>

MessageOk(o, k) == ~Opt(o, k).some \/ FieldsOk(o[k].o, MessageFields)

\* Option<Message>
OptMessage(o, k) ==
    IF Opt(o, k).some
    THEN Some([text |-> o[k].o.text.s, html |-> o[k].o.html.s, markdown |-> o[k].o.markdown.s])
    ELSE None

\* HashMap<String, Container>
ContainersOk(v) ==
    \A k \in DOMAIN v.o :
        /\ v.o[k].t = "object"
        /\ Has(v.o[k].o, "id", "string")
        /\ IsOpt(v.o[k].o, "baseUrl", "string")

DecodeContainers(v) ==
    [k \in DOMAIN v.o |-> [id |-> v.o[k].o.id.s, base_url |-> OptStr(v.o[k].o, "baseUrl")]]

\* serde's Deserialize for Event
DecodeEvent(v) ==
    IF v.t # "object" THEN Err(<<"invalid type: expected struct Event">>)
    ELSE IF ~FieldsOk(v.o, EventFields) THEN Err(<<FieldError(v.o, EventFields)>>)
    ELSE IF ~(/\ IsOpt(v.o, "subscriptionId", "string")
              /\ IsOpt(v.o, "notificationId", "number")
              /\ IsOpt(v.o, "message", "object")
              /\ IsOpt(v.o, "detailedMessage", "object")
              /\ IsOpt(v.o, "resourceVersion", "string")
              /\ MessageOk(v.o, "message")
              /\ MessageOk(v.o, "detailedMessage")
              /\ ContainersOk(v.o.resourceContainers))
         THEN Err(<<"invalid type">>)
    ELSE Ok([id |-> v.o.id.s,
             subscription_id |-> OptStr(v.o, "subscriptionId"),
             notification_id |-> OptNum(v.o, "notificationId"),
             event_type |-> v.o.eventType.s,
             publisher_id |-> v.o.publisherId.s,
             message |-> OptMessage(v.o, "message"),
             detailed_message |-> OptMessage(v.o, "detailedMessage"),
             resource |-> Opt(v.o, "resource"),
             resource_version |-> OptStr(v.o, "resourceVersion"),
             resource_containers |-> DecodeContainers(v.o.resourceContainers),
             created_date |-> v.o.createdDate.s])

\* mutant: the nested event is required, as the service's documentation has it
DecodeDetails_eventrequired(v) ==
    IF ~Has(v.o, "eventType", "string") THEN Err(<<"missing field eventType">>)
    ELSE IF ~Opt(v.o, "event").some THEN Err(<<"missing field event">>)
    ELSE IF ~DecodeEvent(v.o.event).ok THEN DecodeEvent(v.o.event)
    ELSE Ok([event_type |-> v.o.eventType.s, event |-> Some(DecodeEvent(v.o.event).value)])

\* serde's Deserialize for NotificationDetails
DecodeDetails(v) ==
    IF ~Has(v.o, "eventType", "string") THEN Err(<<"missing field eventType">>)
    ELSE IF ~Opt(v.o, "event").some
         THEN Ok([event_type |-> v.o.eventType.s, event |-> None])
    ELSE IF ~DecodeEvent(v.o.event).ok THEN DecodeEvent(v.o.event)
    ELSE Ok([event_type |-> v.o.eventType.s, event |-> Some(DecodeEvent(v.o.event).value)])

\* serde_json::from_str::<Notification>
DecodeNotification(v) ==
    IF v.t = "invalid" THEN Err(<<"expected value at line 1 column 1">>)
    ELSE IF v.t # "object" THEN Err(<<"invalid type: expected struct Notification">>)
    ELSE IF ~FieldsOk(v.o, NotificationFields)
         THEN Err(<<FieldError(v.o, NotificationFields)>>)
    ELSE IF ~DecodeDetails(v.o.details).ok THEN DecodeDetails(v.o.details)
    ELSE Ok([id |-> v.o.id.n,
             subscription_id |-> v.o.subscriptionId.s,
             subscriber_id |-> v.o.subscriberId.s,
             event_id |-> v.o.eventId.s,
             status |-> v.o.status.s,
             result |-> v.o.result.s,
             created_date |-> v.o.createdDate.s,
             modified_date |-> v.o.modifiedDate.s,
             details |-> DecodeDetails(v.o.details).value])

-----------------------------------------------------------------------------
(* What a sender can post to /hooks/ado/build.                             *)

\* The wire JSON of an event: a field the event does not have is left out.
EventJson(e) ==
    LET opt(o, v) == IF o.some THEN v ELSE JNull
        full == [id |-> JStr(e.id),
                 subscriptionId |-> opt(e.subscription_id, JStr(e.subscription_id.value)),
                 notificationId |-> opt(e.notification_id, JNum(e.notification_id.value)),
                 eventType |-> JStr(e.event_type),
                 publisherId |-> JStr(e.publisher_id),
                 resource |-> opt(e.resource, e.resource.value),
                 resourceContainers |->
                     JObj([k \in DOMAIN e.resource_containers |->
                              JObj([id |-> JStr(e.resource_containers[k].id)])]),
                 createdDate |-> JStr(e.created_date)]
    IN  JObj([k \in {x \in DOMAIN full : full[x].t # "null"} |-> full[k]])

\* A complete build.complete event, as the service posts it.
CompleteBody ==
    EventJson([id |-> EventId,
               subscription_id |-> Some(SubscriptionId),
               notification_id |-> Some(NotificationId),
               event_type |-> "build.complete",
               publisher_id |-> "tfs",
               message |-> None,
               detailed_message |-> None,
               resource |-> Some(BuildResource),
               resource_version |-> None,
               resource_containers |-> ResourceContainers,
               created_date |-> "2023-06-30T15:24:41.3517333Z"])

\* Bodies that depart from a complete one: a field left out, a field of
\* another JSON type, a field Event does not know, a null, a body that is
\* no object.
VariantBodies ==
    {JObj(Without(CompleteBody.o, k)) : k \in EventKeys}
    \cup {JObj([CompleteBody.o EXCEPT ![k] = JNum(7)]) : k \in {"id", "eventType"}}
    \cup {JObj(CompleteBody.o @@ [message |-> JStr("Build 20150407.2 succeeded")]),
          JObj(CompleteBody.o @@ [sessionToken |-> JStr("opaque")]),
          JObj([CompleteBody.o EXCEPT !.subscriptionId = JNull]),
          JNum(7)}

\* The request bodies the server is sent.
Bodies == {EventJson(e) : e \in InboundEvents} \cup VariantBodies

-----------------------------------------------------------------------------
(* What the notification-lookup endpoint can answer.                       *)

\* A response body: the raw text and what it parses to.
NotificationJson(id, event_id, status) ==
    JObj([id |-> JNum(id),
          subscriptionId |-> JStr(SubscriptionId),
          subscriberId |-> JStr("00000000-0000-0000-0000-000000000000"),
          eventId |-> JStr(event_id),
          status |-> JStr(status),
          result |-> JStr("pending"),
          createdDate |-> JStr("2023-06-30T16:19:52.033Z"),
          modifiedDate |-> JStr("2023-06-30T16:19:52.043Z"),
          details |-> JObj([eventType |-> JStr("build.complete"),
                            publisherId |-> JStr("tfs"),
                            requestAttempts |-> JNum(1)])])

\* The nested event of the fixture's first notification: it carries the
\* resource and the messages, and neither subscriptionId nor notificationId.
NestedEventJson ==
    JObj([id |-> JStr(EventId),
          eventType |-> JStr("build.complete"),
          publisherId |-> JStr("tfs"),
          message |-> JObj([text |-> JStr("Build 20150407.2 succeeded"),
                            html |-> JStr("Build <a>20150407.2</a> succeeded"),
                            markdown |-> JStr("Build [20150407.2] succeeded")]),
          resource |-> BuildResource,
          resourceVersion |-> JStr("2.0"),
          resourceContainers |->
              JObj([collection |-> JObj([id |-> JStr("c12d0eb8-e382-443b-9f9c-c52cba5014c2")])]),
          createdDate |-> JStr("2023-06-30T15:24:41.3517333Z")])

\* the fixture's first notification: id 41, processing, with the nested event
FullNotificationText ==
    [raw |-> "{id:41,eventId:" \o EventId \o ",status:processing,details:{event:{}}}",
     json |-> JObj([NotificationJson(NotificationId, EventId, "processing").o EXCEPT
                      !.details = JObj([eventType |-> JStr("build.complete"),
                                        event |-> NestedEventJson])])]

\* the same notification, carrying the nested event of another event id
NestedMismatchText ==
    [raw |-> "{id:41,eventId:" \o EventId \o ",status:processing,details:{event:{id:"
             \o OtherEventId \o "}}}",
     json |-> JObj([NotificationJson(NotificationId, EventId, "processing").o EXCEPT
                      !.details = JObj([eventType |-> JStr("build.complete"),
                                        event |-> JObj([NestedEventJson.o EXCEPT
                                                          !.id = JStr(OtherEventId)])])])]

\* the same notification with a nested event that has no resource, no
\* message, no subscriptionId and no notificationId
BareNestedText ==
    [raw |-> "{id:41,eventId:" \o EventId \o ",status:processing,details:{event:{id:"
             \o EventId \o "}}}",
     json |-> JObj([NotificationJson(NotificationId, EventId, "processing").o EXCEPT
                      !.details =
                          JObj([eventType |-> JStr("build.complete"),
                                event |-> JObj([k \in EventKeys |-> NestedEventJson.o[k]])])])]

NotificationText(id, event_id, status) ==
    [raw |-> "{id:" \o ToString(id) \o ",eventId:" \o event_id \o ",status:" \o status \o "}",
     json |-> NotificationJson(id, event_id, status)]

GarbageText == [raw |-> "<html>Sign In</html>", json |-> NotJson]

NoStatusText ==
    [raw |-> "{id:41,eventId:" \o EventId \o "}",
     json |-> JObj(Without(NotificationJson(NotificationId, EventId, "processing").o, "status"))]

NotificationTexts ==
    {NotificationText(n, e, st) : n \in {NotificationId, OtherNotificationId},
                                  e \in {EventId, OtherEventId},
                                  st \in {"processing", "completed"}}

\* send() failed: no response at all
SendFailed == [sent |-> FALSE, status |-> 0, text |-> None]

HttpResponse(status, text) == [sent |-> TRUE, status |-> status, text |-> text]

Responses ==
    {SendFailed, HttpResponse(404, Some(GarbageText)), HttpResponse(STATUS_OK, None)}
    \cup {HttpResponse(STATUS_OK, Some(t)) :
            t \in {GarbageText, NoStatusText, FullNotificationText, NestedMismatchText,
                   BareNestedText}
                    \cup NotificationTexts}

-----------------------------------------------------------------------------
(* anyhow *)

\* Result::context / Option::context
Context(result, msg) ==
    IF result.ok THEN result ELSE Err(<<msg>> \o result.chain)

OptionContext(opt, msg) ==
    IF opt.some THEN Ok(opt.value) ELSE Err(<<msg>>)

RECURSIVE Causes(_, _)
\* the numbered causes of the {:?} rendering, from cause i on
Causes(chain, i) ==
    IF i > Len(chain) THEN ""
    ELSE "\n    " \o ToString(i - 2) \o ": " \o chain[i] \o Causes(chain, i + 1)

\* format!("{:?}", anyhow::Error)
DebugFmt(chain) ==
    IF Len(chain) = 1 THEN chain[1]
    ELSE IF Len(chain) = 2 THEN chain[1] \o "\n\nCaused by:\n    " \o chain[2]
    ELSE chain[1] \o "\n\nCaused by:" \o Causes(chain, 2)

-----------------------------------------------------------------------------
(* src/src/main.rs *)

\* mutant: the body does not carry the error
Error_into_response_generic(chain) ==
    [status |-> INTERNAL_SERVER_ERROR, body |-> "Internal Server Error"]

\* impl IntoResponse for Error
Error_into_response(chain) ==
    [status |-> INTERNAL_SERVER_ERROR, body |-> DebugFmt(chain)]

\* the response axum builds from the handler's Result<(), Error>
into_response(result) ==
    IF result.ok THEN [status |-> 200, body |-> ""]
    ELSE Error_into_response(result.chain)

-----------------------------------------------------------------------------
(* src/src/hooks/ado.rs *)

\* mutant: the extractor also decodes the resource of a build.complete event
Json_from_request_typed(body) ==
    LET event == DecodeEvent(body)
    IN  IF ~event.ok
        THEN Err(<<"Failed to deserialize the JSON body into the target type">> \o event.chain)
        ELSE IF /\ event.value.event_type = "build.complete"
                /\ event.value.resource.some
                /\ ~DecodeBuildComplete(event.value.resource.value).ok
        THEN Err(<<"Failed to deserialize the JSON body into the target type">>
                 \o DecodeBuildComplete(event.value.resource.value).chain)
        ELSE event

\* Json(event): Json<events::Event>, the extractor of build: a body that does
\* not decode is rejected before build runs
Json_from_request(body) ==
    LET event == DecodeEvent(body)
    IN  IF event.ok THEN event
        ELSE Err(<<"Failed to deserialize the JSON body into the target type">> \o event.chain)

\* the response of a JsonRejection: 422 Unprocessable Entity
JsonRejection_into_response(chain) ==
    [status |-> 422, body |-> chain[1] \o ": " \o chain[2]]

\* mutant: a resource that does not decode is replaced by a default build
build_complete_default(event) ==
    LET resource == OptionContext(event.resource, "resource data not present")
    IN  IF ~resource.ok THEN resource ELSE Ok("()")

\* mutant: an event without resource is passed over
build_complete_skipmissing(event) ==
    IF is_none(event.resource) THEN Ok("()")
    ELSE LET decoded == Context(DecodeBuildComplete(event.resource.value),
                                "failed to decode resource")
         IN  IF decoded.ok THEN Ok("()") ELSE decoded

\* async fn build_complete
build_complete(event) ==
    LET resource == OptionContext(event.resource, "resource data not present")
    IN  IF ~resource.ok THEN resource
        ELSE LET decoded == Context(DecodeBuildComplete(resource.value),
                                    "failed to decode resource")
             IN  IF decoded.ok THEN Ok("()") ELSE decoded

\* #[derive(Clone)] for Event
Event_clone(e) ==
    [id |-> e.id,
     subscription_id |-> e.subscription_id,
     notification_id |-> e.notification_id,
     event_type |-> e.event_type,
     publisher_id |-> e.publisher_id,
     message |-> e.message,
     detailed_message |-> e.detailed_message,
     resource |-> e.resource,
     resource_version |-> e.resource_version,
     resource_containers |-> e.resource_containers,
     created_date |-> e.created_date]

\* the lookup URL of verify
LookupUrl(subscription_id, notification_id) ==
    ADO_ORGANIZATION \o "/_apis/hooks/subscriptions/" \o subscription_id
    \o "/notifications/" \o ToString(notification_id) \o "?api-version=7.1-preview.1"

\* mutant: a missing subscription id falls back to the nil UUID
verify_request_default(event) ==
    LET notification_id == OptionContext(event.notification_id, "event had no notification id")
    IN  IF ~notification_id.ok
        THEN Ok(LookupUrl("00000000-0000-0000-0000-000000000000", 0))
        ELSE IF ~event.subscription_id.some
        THEN Ok(LookupUrl("00000000-0000-0000-0000-000000000000", notification_id.value))
        ELSE Ok(LookupUrl(event.subscription_id.value, notification_id.value))

\* verify, up to the point where the GET is sent: the URL, or the error
verify_request(event) ==
    LET notification_id == OptionContext(event.notification_id, "event had no notification id")
        subscription_id == OptionContext(event.subscription_id, "event had no subscription id")
    IN  IF ~notification_id.ok THEN notification_id
        ELSE IF ~subscription_id.ok THEN subscription_id
        ELSE Ok(LookupUrl(subscription_id.value, notification_id.value))

\* mutant: the status of the notification is not compared
Mismatch_nostatus(notif, event) ==
    \/ notif.event_id # event.id
    \/ notif.id # event.notification_id.value

\* the condition of the cross-check of the fetched notification
Mismatch(notif, event) ==
    \/ notif.event_id # event.id
    \/ notif.id # event.notification_id.value
    \/ notif.status # "processing"

\* mutant: the event of the fetched notification is returned when it has one
verify_crosscheck_fetched(notif, event) ==
    IF Mismatch(notif, event)
    THEN Err(<<"failed to verify event">>)
    ELSE IF notif.details.event.some
         THEN Ok(notif.details.event.value)
         ELSE Ok(Event_clone(event))

\* the end of verify: the cross-check and what verify returns
verify_crosscheck(notif, event) ==
    IF Mismatch(notif, event)
    THEN Err(<<"failed to verify event">>)
    ELSE Ok(Event_clone(event))

\* verify, from a received response on
verify_checked(event, url, resp) ==
    IF resp.status # STATUS_OK
    THEN Err(<<url \o ": code " \o ToString(resp.status)>>)
    ELSE IF ~resp.text.some
    THEN Err(<<"failed to download notification data", "error decoding response body">>)
    ELSE LET text == resp.text.value
             notif == Context(DecodeNotification(text.json),
                              "failed to decode notification data: " \o text.raw)
         IN  IF ~notif.ok THEN notif
             ELSE verify_crosscheck(notif.value, event)

\* mutant: a GET that could not be sent counts as a verification
verify_response_failopen(event, url, resp) ==
    IF ~resp.sent
    THEN Ok(Event_clone(event))
    ELSE verify_checked(event, url, resp)

\* verify, from the answer to the GET on
verify_response(event, url, resp) ==
    IF ~resp.sent
    THEN Err(<<"failed to fetch notification data", "error sending request">>)
    ELSE verify_checked(event, url, resp)

\* mutant: only the flag decides, as in the older handler of src/src/api.rs
NeedsVerification_flagonly(event, flag) == flag

\* the condition of the trust decision in build
NeedsVerification(event, flag) == is_none(event.resource) \/ flag

\* mutant: the tag is compared ignoring ASCII case
HandlerFor_ignorecase(event_type) ==
    IF event_type \in {"build.complete", "Build.Complete"} THEN "build_complete" ELSE "none"

\* the match on the event type in build
HandlerFor(event_type) ==
    IF event_type = "build.complete" THEN "build_complete" ELSE "none"

\* async fn build, run from its entry to its return on its own, given what
\* its two awaits are answered with: the Result it returns and the number of
\* calls of build_complete it makes
build(event, token_result, resp, flag) ==
    LET trusted ==
            IF ~token_result.ok THEN Context(token_result, "failed to query identity")
            ELSE IF ~NeedsVerification(event, flag) THEN Ok(event)
            ELSE IF ~verify_request(event).ok
                 THEN Context(verify_request(event), "failed to verify event")
            ELSE Context(verify_response(event, verify_request(event).value, resp),
                         "failed to verify event")
    IN  IF ~trusted.ok THEN [result |-> trusted, handler_calls |-> 0]
        ELSE IF HandlerFor(trusted.value.event_type) = "build_complete"
        THEN [result |-> build_complete(trusted.value), handler_calls |-> 1]
        ELSE [result |-> Ok("()"), handler_calls |-> 0]

-----------------------------------------------------------------------------
(* The state of the server: one run of build per request.                  *)

VARIABLES
    secure_fetch,   \* the value SECURE_FETCH was compiled with
    pc,             \* where each request's run of build stands
    body,           \* the JSON body the request was posted with
    inbound,        \* the Event the Json extractor handed to build
    log,            \* what the request wrote to the tracing log
    token,          \* the bearer token build holds
    token_calls,    \* calls of get_token made for the request
    verify_calls,   \* calls of verify made for the request
    url,            \* the lookup URL verify built
    http_calls,     \* GETs sent to the lookup endpoint for the request
    fetched,        \* the answer to the GET
    event,          \* build's local event after the trust decision
    handler,        \* the arm the match on event_type took
    handler_calls,  \* calls of build_complete made for the request
    outcome,        \* what build returned
    response        \* the response written to the caller

vars ==
    <<secure_fetch, pc, body, inbound, log, token, token_calls, verify_calls, url,
      http_calls, fetched, event, handler, handler_calls, outcome, response>>

\* the credential provider answers get_token with a token or an error
TokenResults ==
    {Ok([audience |-> ADO_RESOURCE, secret |-> "secret"]), Err(<<"no credential available">>)}

InitRequests ==
    /\ pc = [r \in Requests |-> "Idle"]
    /\ body = [r \in Requests |-> None]
    /\ inbound = [r \in Requests |-> None]
    /\ log = [r \in Requests |-> <<>>]
    /\ token = [r \in Requests |-> None]
    /\ token_calls = [r \in Requests |-> 0]
    /\ verify_calls = [r \in Requests |-> 0]
    /\ url = [r \in Requests |-> None]
    /\ http_calls = [r \in Requests |-> 0]
    /\ fetched = [r \in Requests |-> None]
    /\ event = [r \in Requests |-> None]
    /\ handler = [r \in Requests |-> None]
    /\ handler_calls = [r \in Requests |-> 0]
    /\ outcome = [r \in Requests |-> None]
    /\ response = [r \in Requests |-> None]

Init == secure_fetch = SECURE_FETCH /\ InitRequests

\* build returns: axum turns the Result into the response
Return(r, result) ==
    /\ pc' = [pc EXCEPT ![r] = IF result.ok THEN "Done" ELSE "Error"]
    /\ outcome' = [outcome EXCEPT ![r] = Some(result)]
    /\ response' = [response EXCEPT ![r] = Some(into_response(result))]

\* The router runs the Json extractor on the body and, when it yields an
\* Event, calls build with it.
Receive(r) ==
    /\ pc[r] = "Idle"
    /\ \E b \in Bodies :
          /\ body' = [body EXCEPT ![r] = Some(b)]
          /\ LET extracted == Json_from_request(b)
             IN  IF extracted.ok
                 THEN /\ inbound' = [inbound EXCEPT ![r] = extracted.value]
                      /\ pc' = [pc EXCEPT ![r] = "Received"]
                      /\ UNCHANGED response
                 ELSE /\ pc' = [pc EXCEPT ![r] = "Rejected"]
                      /\ response' = [response EXCEPT ![r] =
                                         Some(JsonRejection_into_response(extracted.chain))]
                      /\ UNCHANGED inbound
    /\ UNCHANGED <<secure_fetch, log, token, token_calls, verify_calls, url, http_calls, fetched,
                   event, handler, handler_calls, outcome>>

\* info!("received event: {event}"); serializing an Event cannot fail
LogReceipt(r) ==
    /\ pc[r] = "Received"
    /\ log[r] = <<>>
    /\ log' = [log EXCEPT ![r] = Append(@, [msg |-> "received event", event |-> inbound[r]])]
    /\ UNCHANGED <<secure_fetch, body, pc, inbound, token, token_calls, verify_calls, url, http_calls,
                   fetched, event, handler, handler_calls, outcome, response>>

\* mutant: a failed get_token is tried again
AcquireToken_retry(r) ==
    /\ pc[r] = "Received"
    /\ log[r] # <<>>
    /\ token_calls' = [token_calls EXCEPT ![r] = @ + 1]
    /\ \E res \in TokenResults :
          IF res.ok
          THEN /\ token' = [token EXCEPT ![r] = Some(res.value)]
               /\ pc' = [pc EXCEPT ![r] = "TokenAcquired"]
          ELSE UNCHANGED <<token, pc>>
    /\ UNCHANGED <<secure_fetch, body, inbound, log, verify_calls, url, http_calls, fetched,
                   event, handler, handler_calls, outcome, response>>

\* mutant: the token is asked for before the receipt is logged
AcquireToken_beforelog(r) ==
    /\ pc[r] = "Received"
    /\ token_calls' = [token_calls EXCEPT ![r] = @ + 1]
    /\ \E res \in TokenResults :
          IF res.ok
          THEN /\ token' = [token EXCEPT ![r] = Some(res.value)]
               /\ pc' = [pc EXCEPT ![r] = "TokenAcquired"]
               /\ UNCHANGED <<outcome, response>>
          ELSE /\ Return(r, Context(res, "failed to query identity"))
               /\ UNCHANGED token
    /\ UNCHANGED <<secure_fetch, body, inbound, log, verify_calls, url, http_calls, fetched,
                   event, handler, handler_calls>>

\* mutant: a token that was obtained is kept in the shared state and handed
\* to every request that waits for one
AcquireToken_shared(r) ==
    /\ pc[r] = "Received"
    /\ log[r] # <<>>
    /\ token_calls' = [token_calls EXCEPT ![r] = @ + 1]
    /\ \E res \in TokenResults :
          IF res.ok
          THEN /\ token' = [q \in Requests |->
                               IF q = r \/ pc[q] = "Received"
                               THEN Some(res.value) ELSE token[q]]
               /\ pc' = [pc EXCEPT ![r] = "TokenAcquired"]
               /\ UNCHANGED <<outcome, response>>
          ELSE /\ Return(r, Context(res, "failed to query identity"))
               /\ UNCHANGED token
    /\ UNCHANGED <<secure_fetch, body, inbound, log, verify_calls, url, http_calls, fetched,
                   event, handler, handler_calls>>

\* creds.get_token(ADO_RESOURCE).await.context("failed to query identity")
AcquireToken(r) ==
    /\ pc[r] = "Received"
    /\ log[r] # <<>>
    /\ token_calls' = [token_calls EXCEPT ![r] = @ + 1]
    /\ \E res \in TokenResults :
          IF res.ok
          THEN /\ token' = [token EXCEPT ![r] = Some(res.value)]
               /\ pc' = [pc EXCEPT ![r] = "TokenAcquired"]
               /\ UNCHANGED <<outcome, response>>
          ELSE /\ Return(r, Context(res, "failed to query identity"))
               /\ UNCHANGED token
    /\ UNCHANGED <<secure_fetch, body, inbound, log, verify_calls, url, http_calls, fetched,
                   event, handler, handler_calls>>

\* the trust decision of build and, when it asks for it, verify up to its GET
DecideTrust(r) ==
    /\ pc[r] = "TokenAcquired"
    /\ IF NeedsVerification(inbound[r], secure_fetch)
       THEN LET request == verify_request(inbound[r])
            IN  /\ verify_calls' = [verify_calls EXCEPT ![r] = @ + 1]
                /\ IF request.ok
                   THEN /\ url' = [url EXCEPT ![r] = Some(request.value)]
                        /\ http_calls' = [http_calls EXCEPT ![r] = @ + 1]
                        /\ pc' = [pc EXCEPT ![r] = "Verifying"]
                        /\ UNCHANGED <<event, outcome, response>>
                   ELSE /\ Return(r, Context(request, "failed to verify event"))
                        /\ UNCHANGED <<url, http_calls, event>>
       ELSE /\ event' = [event EXCEPT ![r] = inbound[r]]
            /\ pc' = [pc EXCEPT ![r] = "Trusted"]
            /\ UNCHANGED <<verify_calls, url, http_calls, outcome, response>>
    /\ UNCHANGED <<secure_fetch, body, inbound, log, token, token_calls, fetched,
                   handler, handler_calls>>

\* the GET is answered: the rest of verify
VerifyResponse(r) ==
    /\ pc[r] = "Verifying"
    /\ \E resp \in Responses :
          /\ fetched' = [fetched EXCEPT ![r] = Some(resp)]
          /\ LET verified == verify_response(inbound[r], url[r].value, resp)
             IN  IF verified.ok
                 THEN /\ event' = [event EXCEPT ![r] = verified.value]
                      /\ pc' = [pc EXCEPT ![r] = "Verified"]
                      /\ UNCHANGED <<outcome, response>>
                 ELSE /\ Return(r, Context(verified, "failed to verify event"))
                      /\ UNCHANGED event
    /\ UNCHANGED <<secure_fetch, body, inbound, log, token, token_calls, verify_calls, url, http_calls,
                   handler, handler_calls>>

\* match event.event_type.as_str()
Dispatch(r) ==
    /\ pc[r] \in {"Trusted", "Verified"}
    /\ handler' = [handler EXCEPT ![r] = Some(HandlerFor(event[r].event_type))]
    /\ handler_calls' = [handler_calls EXCEPT ![r] =
                            IF HandlerFor(event[r].event_type) = "build_complete"
                            THEN @ + 1 ELSE @]
    /\ pc' = [pc EXCEPT ![r] = "Dispatched"]
    /\ UNCHANGED <<secure_fetch, body, inbound, log, token, token_calls, verify_calls, url, http_calls,
                   fetched, event, outcome, response>>

\* the arm runs and build returns its result
RunHandler(r) ==
    /\ pc[r] = "Dispatched"
    /\ Return(r, IF handler[r].value = "build_complete"
                 THEN build_complete(event[r]) ELSE Ok("()"))
    /\ UNCHANGED <<secure_fetch, body, inbound, log, token, token_calls, verify_calls, url, http_calls,
                   fetched, event, handler, handler_calls>>

Next ==
    \E r \in Requests :
        \/ Receive(r)
        \/ LogReceipt(r)
        \/ AcquireToken(r)
        \/ DecideTrust(r)
        \/ VerifyResponse(r)
        \/ Dispatch(r)
        \/ RunHandler(r)

Spec == Init /\ [][Next]_vars

\* The same server for either value SECURE_FETCH can be compiled with.
InitConfig == secure_fetch \in BOOLEAN /\ InitRequests

SpecConfig == InitConfig /\ [][Next]_vars

-----------------------------------------------------------------------------
(* Properties *)

\* the GET of request r was answered 200 with a body that decodes
AnsweredWithNotification(r) ==
    /\ fetched[r].some
    /\ fetched[r].value.sent
    /\ fetched[r].value.status = 200
    /\ fetched[r].value.text.some
    /\ DecodeNotification(fetched[r].value.text.value.json).ok

FetchedNotification(r) == DecodeNotification(fetched[r].value.text.value.json).value

\* the fetched notification agrees with the inbound event of request r
Agrees(r) ==
    /\ FetchedNotification(r).event_id = inbound[r].id
    /\ FetchedNotification(r).id = inbound[r].notification_id.value
    /\ FetchedNotification(r).status = "processing"

VerificationFailed == <<"failed to verify event", "failed to verify event">>

MissingIdentifiers ==
    {<<"failed to verify event", "event had no notification id">>,
     <<"failed to verify event", "event had no subscription id">>}

\* C1: a 200 answer whose Notification disagrees with the inbound event in
\* eventId, id or status makes verify fail with the verification error, and
\* no event comes out of it.
C1_MismatchFails ==
    \A r \in Requests :
        (AnsweredWithNotification(r) /\ ~Agrees(r))
            => /\ pc[r] = "Error"
               /\ outcome[r] = Some(Err(VerificationFailed))
               /\ event[r] = None
               /\ handler_calls[r] = 0

\* a notification that agrees in both ids and differs only in its status
C1_Witness ==
    \E r \in Requests :
        /\ AnsweredWithNotification(r)
        /\ FetchedNotification(r).event_id = inbound[r].id
        /\ FetchedNotification(r).id = inbound[r].notification_id.value
        /\ FetchedNotification(r).status = "completed"
        /\ pc[r] = "Error"

\* C2: verify on an event without subscriptionId or without notificationId
\* fails with the missing-identifier error; the request ends in error, no GET
\* is sent, the event is not trusted and no handler runs.
C2_MissingIdentifiers ==
    \A r \in Requests :
        (/\ verify_calls[r] > 0
         /\ is_none(inbound[r].subscription_id) \/ is_none(inbound[r].notification_id))
            => /\ pc[r] = "Error"
               /\ outcome[r].some
               /\ ~outcome[r].value.ok
               /\ outcome[r].value.chain \in MissingIdentifiers
               /\ response[r].value.status = INTERNAL_SERVER_ERROR
               /\ http_calls[r] = 0
               /\ event[r] = None
               /\ handler[r] = None
               /\ handler_calls[r] = 0

\* an event that carries a resource and a subscription id, and no notification id
C2_Witness ==
    \E r \in Requests :
        /\ verify_calls[r] > 0
        /\ inbound[r].resource.some
        /\ inbound[r].subscription_id.some
        /\ is_none(inbound[r].notification_id)
        /\ pc[r] = "Error"

\* C3: at most one GET is sent per request, and when that one attempt fails
\* (not sent, not 200, body unreadable or undecodable, fields disagree) the
\* request ends in error with no second GET and no handler.
C3_SingleAttempt ==
    \A r \in Requests :
        /\ http_calls[r] <= 1
        /\ verify_calls[r] <= 1
        /\ (fetched[r].some /\ ~(AnsweredWithNotification(r) /\ Agrees(r)))
              => /\ pc[r] = "Error"
                 /\ ~outcome[r].value.ok
                 /\ http_calls[r] = 1
                 /\ event[r] = None
                 /\ handler[r] = None
                 /\ handler_calls[r] = 0

\* a GET that could not be sent
C3_Witness ==
    \E r \in Requests :
        /\ fetched[r].some
        /\ ~fetched[r].value.sent
        /\ http_calls[r] = 1
        /\ pc[r] = "Error"

\* C4: once the token is held, verify is called exactly when the event has
\* no resource or the always-verify flag is on; an event with a resource
\* under a disabled flag goes to dispatch as it came, with no GET.
C4_VerifyWhenRequired ==
    \A r \in Requests :
        /\ ~token[r].some => verify_calls[r] = 0
        /\ (token[r].some /\ pc[r] # "TokenAcquired")
              => /\ verify_calls[r] = 1
                     <=> (is_none(inbound[r].resource) \/ secure_fetch)
                 /\ verify_calls[r] = 0
                     => /\ http_calls[r] = 0
                        /\ fetched[r] = None
                        /\ event[r] = inbound[r]

\* flag off, resource present: dispatched unverified
C4_Witness ==
    \E r \in Requests :
        /\ pc[r] = "Dispatched"
        /\ ~secure_fetch
        /\ inbound[r].resource.some
        /\ verify_calls[r] = 0
        /\ event[r] = inbound[r]

AuthError == <<"failed to query identity", "no credential available">>

\* C5: a failed get_token ends the request with the identity error; get_token
\* is called once, and neither verify, the GET nor a handler follows.
C5_TokenFailureFatal ==
    \A r \in Requests :
        /\ token_calls[r] <= 1
        /\ (token_calls[r] = 1 /\ ~token[r].some)
              => /\ pc[r] = "Error"
                 /\ outcome[r] = Some(Err(AuthError))
                 /\ verify_calls[r] = 0
                 /\ http_calls[r] = 0
                 /\ handler[r] = None
                 /\ handler_calls[r] = 0

C5_Witness ==
    \E r \in Requests :
        /\ token_calls[r] = 1
        /\ ~token[r].some
        /\ pc[r] = "Error"
        /\ response[r].value.status = INTERNAL_SERVER_ERROR

\* C6: at dispatch build_complete is called if and only if the tag is exactly
\* "build.complete"; for any other tag no handler is called and build
\* returns Ok.
C6_ExactTagDispatch ==
    \A r \in Requests :
        handler[r].some
            => /\ handler_calls[r] = 1 <=> event[r].event_type = "build.complete"
               /\ handler_calls[r] = 0 <=> event[r].event_type # "build.complete"
               /\ (event[r].event_type # "build.complete" /\ pc[r] # "Dispatched")
                     => /\ pc[r] = "Done"
                        /\ outcome[r] = Some(Ok("()"))
                        /\ response[r].value.status = 200

\* the case variant of the tag passes with no handler
C6_Witness ==
    \E r \in Requests :
        /\ handler[r].some
        /\ event[r].event_type = "Build.Complete"
        /\ handler_calls[r] = 0
        /\ pc[r] = "Done"

\* everything the server holds for request r
RequestState(r) ==
    <<pc[r], body[r], inbound[r], log[r], token[r], token_calls[r], verify_calls[r], url[r],
      http_calls[r], fetched[r], event[r], handler[r], handler_calls[r], outcome[r],
      response[r]>>

AllowedSteps ==
    {<<"Idle", "Received">>, <<"Idle", "Rejected">>,
     <<"Received", "TokenAcquired">>, <<"Received", "Error">>,
     <<"TokenAcquired", "Trusted">>, <<"TokenAcquired", "Verifying">>,
     <<"TokenAcquired", "Error">>,
     <<"Verifying", "Verified">>, <<"Verifying", "Error">>,
     <<"Trusted", "Dispatched">>, <<"Verified", "Dispatched">>,
     <<"Dispatched", "Done">>, <<"Dispatched", "Error">>}

\* C7: a request only moves Received -> TokenAcquired -> (Trusted | Verifying
\* -> Verified) -> Dispatched -> Done or into Error; the receipt is logged
\* before get_token is called, the token is held before the GET is sent, a
\* handler is dispatched only from Trusted or Verified, and nothing of a
\* request changes once it is Done or in Error.
C7_StateMachine ==
    [][\A r \in Requests :
          /\ pc'[r] # pc[r] => <<pc[r], pc'[r]>> \in AllowedSteps
          /\ (pc'[r] = pc[r] /\ RequestState(r)' # RequestState(r))
                => /\ pc[r] = "Received"
                   /\ log[r] = <<>>
                   /\ Len(log'[r]) = 1
                   /\ token_calls'[r] = token_calls[r]
          /\ token_calls'[r] # token_calls[r]
                => /\ pc[r] = "Received"
                   /\ Len(log[r]) = 1
                   /\ token_calls[r] = 0
          /\ http_calls'[r] # http_calls[r]
                => /\ pc[r] = "TokenAcquired"
                   /\ token[r].some
                   /\ http_calls[r] = 0
          /\ handler'[r] # handler[r] => pc[r] \in {"Trusted", "Verified"}
          /\ handler_calls'[r] # handler_calls[r] => pc[r] \in {"Trusted", "Verified"}
          /\ pc[r] \in {"Done", "Error"} => RequestState(r)' = RequestState(r)
      ]_vars

\* a request that went the whole way through verification and its handler
C7_Witness ==
    \E r \in Requests :
        /\ pc[r] = "Done"
        /\ Len(log[r]) = 1
        /\ token[r].some
        /\ fetched[r].some
        /\ handler_calls[r] = 1

\* C8: the event verify returns equals the inbound event in every field,
\* whatever the fetched notification carries, and the inbound event is never
\* changed.
C8_OriginalEventReturned ==
    /\ [](\A r \in Requests :
             (fetched[r].some /\ event[r] # None) => event[r] = inbound[r])
    /\ [][\A r \in Requests : inbound[r] # None => inbound'[r] = inbound[r]]_vars

\* verified against a notification whose nested event differs from the inbound one
C8_Witness ==
    \E r \in Requests :
        /\ pc[r] = "Verified"
        /\ AnsweredWithNotification(r)
        /\ FetchedNotification(r).details.event.some
        /\ FetchedNotification(r).details.event.value # inbound[r]
        /\ event[r] = inbound[r]

\* the fields of the resource that BuildComplete cannot do without
RequiredBuildKeys ==
    {"_links", "id", "url", "buildNumber", "status", "result", "queueTime",
     "startTime", "finishTime", "reason"}

MissingResource == <<"resource data not present">>

\* C9: build_complete fails with the missing-resource error on an event
\* without resource, with the decode error on a resource that lacks a
\* required field, and succeeds only on a resource that has them all.
C9_BuildCompleteDecodes ==
    \A r \in Requests :
        (handler[r] = Some("build_complete") /\ outcome[r].some)
            => /\ event[r].event_type = "build.complete"
               /\ is_none(event[r].resource)
                     => outcome[r].value = Err(MissingResource)
               /\ (event[r].resource.some
                   /\ ~(RequiredBuildKeys \subseteq DOMAIN event[r].resource.value.o))
                     => /\ ~outcome[r].value.ok
                        /\ outcome[r].value.chain[1] = "failed to decode resource"
               /\ outcome[r].value.ok
                     => /\ event[r].resource.some
                        /\ RequiredBuildKeys \subseteq DOMAIN event[r].resource.value.o

\* a resource without id
C9_Witness ==
    \E r \in Requests :
        /\ handler[r] = Some("build_complete")
        /\ event[r].resource.some
        /\ "id" \notin DOMAIN event[r].resource.value.o
        /\ pc[r] = "Error"
        /\ outcome[r].value.chain = <<"failed to decode resource", "missing field id">>

\* C10 as the spec states it: any two failed requests get the same response.
C10_GenericFailure ==
    \A r1, r2 \in Requests :
        (pc[r1] = "Error" /\ pc[r2] = "Error") => response[r1] = response[r2]

\* C10, amended: any two failed requests get the same status, 500; the body
\* is the {:?} rendering of the error and its context chain, so two failures
\* get the same body exactly when they have the same error chain.
C10_SameStatusOnly ==
    \A r1, r2 \in Requests :
        (pc[r1] = "Error" /\ pc[r2] = "Error")
            => /\ response[r1].value.status = INTERNAL_SERVER_ERROR
               /\ response[r1].value.status = response[r2].value.status
               /\ response[r1].value.body = response[r2].value.body
                     <=> outcome[r1].value.chain = outcome[r2].value.chain

\* a token failure and a non-200 lookup: same status, different bodies
C10_Witness ==
    \E r1, r2 \in Requests :
        /\ pc[r1] = "Error"
        /\ pc[r2] = "Error"
        /\ outcome[r1].value.chain = AuthError
        /\ fetched[r2].some
        /\ fetched[r2].value.status = 404
        /\ response[r1].value.status = response[r2].value.status
        /\ response[r1].value.body # response[r2].value.body

\* the notification of request r was accepted: it decoded and verify returned Ok
Accepted(r) ==
    /\ pc[r] \in {"Verified", "Dispatched", "Done", "Error"}
    /\ AnsweredWithNotification(r)
    /\ event[r] # None

\* C11: every accepted Notification that carries a nested details.event has
\* its top-level eventId equal to the id of that nested event; a fetched
\* Notification in which the two disagree is not accepted.
C11_NestedEventIdAgrees ==
    \A r \in Requests :
        (Accepted(r) /\ FetchedNotification(r).details.event.some)
            => FetchedNotification(r).event_id = FetchedNotification(r).details.event.value.id

\* the body of request r fails to decode as the specification words it: no
\* id or no eventType of the right shape, or a resource that is not of the
\* shape of its eventType
MalformedAsSpecified(v) ==
    \/ v.t # "object"
    \/ ~Has(v.o, "id", "string")
    \/ ~Has(v.o, "eventType", "string")
    \/ /\ Opt(v.o, "resource").some
       /\ v.o.eventType.s = "build.complete"
       /\ ~DecodeBuildComplete(v.o.resource).ok

\* C12 as the spec states it: the body of a request is rejected exactly when
\* its id or eventType is absent or ill-shaped, or its resource does not have
\* the shape its eventType implies; no other field is needed.
C12_RequiredIdAndTagOnly ==
    \A r \in Requests :
        body[r].some => (pc[r] = "Rejected" <=> MalformedAsSpecified(body[r].value))

\* the JSON type of every field of Event but resource, which is any value
EventShape ==
    [id |-> "string", eventType |-> "string", publisherId |-> "string",
     resourceContainers |-> "object", createdDate |-> "string",
     subscriptionId |-> "string", notificationId |-> "number", message |-> "object",
     detailedMessage |-> "object", resourceVersion |-> "string"]

\* the body fails to decode as the struct Event declares its fields
Malformed(v) ==
    \/ v.t # "object"
    \/ \E k \in EventKeys : k \notin DOMAIN v.o \/ v.o[k].t # EventShape[k]
    \/ \E k \in (DOMAIN EventShape \ EventKeys) \cap DOMAIN v.o :
          v.o[k].t \notin {"null", EventShape[k]}
    \/ ~MessageOk(v.o, "message")
    \/ ~MessageOk(v.o, "detailedMessage")
    \/ ~ContainersOk(v.o.resourceContainers)

\* C12, amended: the body of a request is rejected exactly when one of id,
\* eventType, publisherId, resourceContainers, createdDate is absent or
\* ill-shaped, or a field of type Option that is present is ill-shaped; a
\* rejected request never enters build; the resource is taken as it is, and
\* one that is not of the shape of build.complete fails later, in
\* build_complete.
C12_DeclaredFieldsRequired ==
    \A r \in Requests :
        body[r].some
            => /\ pc[r] = "Rejected" <=> Malformed(body[r].value)
               /\ pc[r] = "Rejected"
                     => /\ inbound[r] = None
                        /\ log[r] = <<>>
                        /\ token_calls[r] = 0
                        /\ handler_calls[r] = 0
                        /\ outcome[r] = None
                        /\ response[r].value.status # 200
               /\ pc[r] # "Rejected"
                     => /\ inbound[r].id = body[r].value.o.id.s
                        /\ inbound[r].event_type = body[r].value.o.eventType.s
                        /\ inbound[r].resource = Opt(body[r].value.o, "resource")

\* one body without publisherId, rejected; one build.complete body whose
\* resource has no id, received, and failed in build_complete
C12_Witness ==
    \E r1, r2 \in Requests :
        /\ pc[r1] = "Rejected"
        /\ body[r1].value.t = "object"
        /\ Has(body[r1].value.o, "id", "string")
        /\ Has(body[r1].value.o, "eventType", "string")
        /\ "publisherId" \notin DOMAIN body[r1].value.o
        /\ pc[r2] = "Error"
        /\ body[r2].value.o.eventType.s = "build.complete"
        /\ Opt(body[r2].value.o, "resource") = Some(BuildResourceNoId)
        /\ outcome[r2].value.chain[1] = "failed to decode resource"

\* the JSON type of every field of Notification
NotificationShape ==
    [id |-> "number", subscriptionId |-> "string", subscriberId |-> "string",
     eventId |-> "string", status |-> "string", result |-> "string",
     createdDate |-> "string", modifiedDate |-> "string", details |-> "object"]

\* v has every field of Notification and of its details; its nested event,
\* when it has one, has every field Event declares without Option
Conforming(v) ==
    /\ v.t = "object"
    /\ \A k \in DOMAIN NotificationShape : Has(v.o, k, NotificationShape[k])
    /\ Has(v.o.details.o, "eventType", "string")
    /\ Opt(v.o.details.o, "event").some => ~Malformed(v.o.details.o.event)

\* the body of the 200 answer to request r
FetchedJson(r) == fetched[r].value.text.value.json

\* C13: a 200 answer whose body has every field of Notification decodes,
\* whether its nested event is left out or has no resource, message,
\* subscriptionId or notificationId, and whatever unknown fields it carries:
\* the request does not fail with the decode error, and the decoded value
\* has a nested event exactly when the body has one.
C13_NotificationDecodes ==
    \A r \in Requests :
        (/\ fetched[r].some
         /\ fetched[r].value.sent
         /\ fetched[r].value.status = 200
         /\ fetched[r].value.text.some
         /\ Conforming(FetchedJson(r)))
            => /\ DecodeNotification(FetchedJson(r)).ok
               /\ FetchedNotification(r).id = FetchedJson(r).o.id.n
               /\ FetchedNotification(r).event_id = FetchedJson(r).o.eventId.s
               /\ FetchedNotification(r).details.event.some
                     <=> Opt(FetchedJson(r).o.details.o, "event").some
               /\ FetchedNotification(r).details.event.some
                     => /\ FetchedNotification(r).details.event.value.resource
                              = Opt(FetchedJson(r).o.details.o.event.o, "resource")
                        /\ FetchedNotification(r).details.event.value.message.some
                              <=> Opt(FetchedJson(r).o.details.o.event.o, "message").some
               /\ pc[r] = "Error" /\ outcome[r].value.chain[1] = "failed to verify event"
                     => outcome[r].value.chain = VerificationFailed

\* one request verified against a notification without nested event and with
\* fields Notification does not know, one against a notification whose
\* nested event has only the fields Event declares without Option
C13_Witness ==
    \E r1, r2 \in Requests :
        /\ pc[r1] = "Verified"
        /\ "event" \notin DOMAIN FetchedJson(r1).o.details.o
        /\ "requestAttempts" \in DOMAIN FetchedJson(r1).o.details.o
        /\ pc[r2] = "Verified"
        /\ "event" \in DOMAIN FetchedJson(r2).o.details.o
        /\ DOMAIN FetchedJson(r2).o.details.o.event.o = EventKeys
        /\ is_none(FetchedNotification(r2).details.event.value.resource)
        /\ is_none(FetchedNotification(r2).details.event.value.message)
        /\ is_none(FetchedNotification(r2).details.event.value.subscription_id)
        /\ is_none(FetchedNotification(r2).details.event.value.notification_id)

\* what get_token answered request r
TokenResult(r) ==
    IF token[r].some THEN Ok(token[r].value) ELSE CHOOSE res \in TokenResults : ~res.ok

\* C14: a step of one request changes nothing of any other request and
\* nothing the requests share; whatever the interleaving, a finished
\* request has the outcome, the response and the number of handler calls
\* that build has when it runs on its own on the same event with the same
\* answers from get_token and from the lookup endpoint.
C14_RequestsIndependent ==
    /\ [][/\ secure_fetch' = secure_fetch
          /\ \A r1, r2 \in Requests :
                (r1 # r2 /\ RequestState(r1)' # RequestState(r1))
                    => RequestState(r2)' = RequestState(r2)]_vars
    /\ [](\A r \in Requests :
             pc[r] \in {"Done", "Error"}
                => LET alone == build(inbound[r], TokenResult(r), fetched[r].value, secure_fetch)
                   IN  /\ outcome[r] = Some(alone.result)
                       /\ response[r] = Some(into_response(alone.result))
                       /\ handler_calls[r] = alone.handler_calls)

\* two requests with the same body, both in flight at the same time, one
\* answered and through its handler, the other still waiting for its GET
C14_Witness ==
    \E r1, r2 \in Requests :
        /\ r1 # r2
        /\ pc[r1] = "Done"
        /\ handler_calls[r1] = 1
        /\ pc[r2] = "Verifying"
        /\ body[r1] = body[r2]
        /\ token[r1] = token[r2]

\* request r was received with a build.complete event that has no resource
ResourcelessBuildComplete(r) ==
    /\ pc[r] \notin {"Idle", "Rejected"}
    /\ inbound[r].event_type = "build.complete"
    /\ is_none(inbound[r].resource)

\* C15: a request received with a build.complete event that has no resource
\* never ends Done: it is always sent to verify, the event verify returns
\* has no resource either, whatever the fetched notification carries, and
\* once build_complete has run the request is in Error with the
\* missing-resource error.
C15_ResourcelessNeverCompletes ==
    \A r \in Requests :
        ResourcelessBuildComplete(r)
            => /\ pc[r] # "Done"
               /\ pc[r] # "Trusted"
               /\ pc[r] \in {"Verified", "Dispatched"} => is_none(event[r].resource)
               /\ pc[r] = "Dispatched" => handler[r] = Some("build_complete")
               /\ (pc[r] = "Error" /\ handler[r].some)
                     => /\ handler_calls[r] = 1
                        /\ outcome[r] = Some(Err(MissingResource))
                        /\ response[r].value.status = INTERNAL_SERVER_ERROR

\* verified against the notification whose nested event carries the
\* resource, and failed in build_complete all the same
C15_Witness ==
    \E r \in Requests :
        /\ ResourcelessBuildComplete(r)
        /\ pc[r] = "Error"
        /\ AnsweredWithNotification(r)
        /\ Agrees(r)
        /\ FetchedNotification(r).details.event.some
        /\ FetchedNotification(r).details.event.value.resource.some
        /\ outcome[r] = Some(Err(MissingResource))

=============================================================================
